---- MODULE Spec2Model ----
(***************************************************************************)
(* ReadNote Plus persistence backend (src/server.js): one Node process, an *)
(* HTTP listener that routes /api/ requests to handleApi, which reads and  *)
(* writes a Redis store through one ioredis client, and every other path   *)
(* to the static file server.                                              *)
(*                                                                         *)
(* A handler runs without interruption from one await to the next; the    *)
(* awaits are the request-body read and each store command.  The commands  *)
(* of all handlers travel over the one client connection, so the store     *)
(* executes them, and the client resolves them, in the order they were     *)
(* issued (cmdq).                                                          *)
(***************************************************************************)
EXTENDS Integers, Sequences, FiniteSets, TLC

\* ------------------------------------------------------------------ bounds
\* Requests the model receives in one behaviour.
MaxRequests == 3
\* Requests whose handlers are suspended at the same time.
MaxInFlight == 2

\* ------------------------------------------------------------ JSON values
\* A JSON value is an opaque token (a string of the model); these two stand
\* for JavaScript's undefined (a field the body does not carry) and null.
Undefined == "undefined"
JsNull == "null"
\* The empty object {} that progress and notes default to.
EmptyObject == "{}"

\* Text is a sequence of one-character strings, so that the routing of a path
\* and the encoding of an id into a path can be computed.
API == <<"a", "p", "i">>
BOOKS == <<"b", "o", "o", "k", "s">>
PROGRESS == <<"p", "r", "o", "g", "r", "e", "s", "s">>
NOTES == <<"n", "o", "t", "e", "s">>
STATUS == <<"s", "t", "a", "t", "u", "s">>
UNKNOWN == <<"x">>
INDEX == <<"i", "n", "d", "e", "x", ".", "h", "t", "m", "l">>
MISSING == <<"n", "o", "n", "e">>

\* The ids a client gives its books: one that is a plain path segment and one
\* that holds a space.  The empty text is the absent (falsy) id.
Ids == {<<"b", "1">>, <<"b", " ", "2">>}
NoId == <<>>

\* The pathname the URL parser yields for a segment: a space is
\* percent-encoded, every other character of the model is kept.
RECURSIVE PercentEncode(_)
PercentEncode(s) ==
    IF s = <<>> THEN <<>>
    ELSE (IF Head(s) = " " THEN <<"%", "2", "0">> ELSE <<Head(s)>>)
         \o PercentEncode(Tail(s))

\* A pathname is the sequence of its segments: /api/books/b1 is
\* <<API, BOOKS, <<"b","1">>>>.
BookPath(id) == <<API, BOOKS, PercentEncode(id)>>

Paths ==
    {<<API, BOOKS>>, <<API, PROGRESS>>, <<API, NOTES>>, <<API, STATUS>>,
     <<API, UNKNOWN>>, <<INDEX>>, <<MISSING>>}
    \cup {BookPath(i) : i \in Ids}

Methods == {"GET", "POST", "PUT", "DELETE", "OPTIONS"}

\* req.url.startsWith('/api/')
IsApiUrl(path) == Len(path) >= 2 /\ path[1] = API

\* pathname.match(/^\/api\/books\/[^/]+$/)
IsBookPath(path) ==
    Len(path) = 3 /\ path[1] = API /\ path[2] = BOOKS /\ path[3] # <<>>

\* pathname.split('/').pop()
BookIdOf(path) == path[Len(path)]

\* ------------------------------------------------------------- store keys
\* `book:${id}:meta` and the like: prefix, id, suffix.
BookKey(id, suffix) == <<"book", id, suffix>>
ProgressKey == <<"user", <<>>, "progress">>
\* The notes routes with the key of the progress routes copied into them.
NotesKeyOfProgress == ProgressKey
NotesKey == <<"user", <<>>, "notes">>

\* redis.keys('book:*:meta'): the keys that start with book: and end in :meta.
MatchesMetaPattern(k) == k[1] = "book" /\ k[3] = "meta"

\* --------------------------------------------------------------- bodies
MetaFields == {"id", "name", "type", "size", "metadata", "savedAt"}

Body(id, name, type, size, metadata, rawData, content, chapters) ==
    [id |-> id, name |-> name, type |-> type, size |-> size,
     metadata |-> metadata, rawData |-> rawData, content |-> content,
     chapters |-> chapters, progress |-> Undefined, notes |-> Undefined]

\* The bodies a client posts to /api/books: with and without the optional
\* fields, with and without raw data, content and chapters, and two that lack
\* a required field.
ValidBookBodies ==
    {Body(i, "n1", p[1], p[2], p[3], p[4], p[5], p[6]) :
        i \in Ids,
        p \in {<<Undefined, Undefined, Undefined, Undefined, Undefined, Undefined>>,
               <<Undefined, Undefined, Undefined, "d1", Undefined, Undefined>>,
               <<"epub", "10", "m1", "d2", "c1", Undefined>>,
               <<"epub", "10", "m1", Undefined, Undefined, "h1">>}}

InvalidBookBodies ==
    {Body(NoId, "n1", Undefined, Undefined, Undefined, "d1", Undefined, Undefined),
     Body(<<"b", "1">>, Undefined, Undefined, Undefined, Undefined, "d1", "c1",
          Undefined)}

BookBodies == ValidBookBodies \cup InvalidBookBodies

NoBody == Body(NoId, Undefined, Undefined, Undefined, Undefined, Undefined,
               Undefined, Undefined)

UserValues == {Undefined, "p1", "p2"}

\* The bodies a client posts to /api/progress.
ProgressBodies == {[NoBody EXCEPT !.progress = v] : v \in UserValues}

\* JSON.stringify of the metaData object: a field whose value is undefined is
\* left out (id and savedAt are never undefined there).
Stringify(obj) ==
    [f \in {g \in DOMAIN obj : g \in {"id", "savedAt"} \/ obj[g] # Undefined} |->
        obj[f]]

\* JSON.parse of a stored meta record: a field that is not there reads as
\* undefined.
Parse(json) ==
    [f \in MetaFields |-> IF f \in DOMAIN json THEN json[f] ELSE Undefined]

\* The check with the name forgotten: !id
MissingRequiredIdOnly(body) == body.id = NoId

\* !id || !name
MissingRequired(body) == body.id = NoId \/ body.name = Undefined

\* The metaData object of a save.
MetaData(body, now) ==
    [id |-> body.id, name |-> body.name, type |-> body.type,
     size |-> body.size, metadata |-> body.metadata, savedAt |-> now]

\* content || chapters
HasContent(body) == body.content # Undefined \/ body.chapters # Undefined

\* JSON.stringify({ content, chapters })
ContentValue(body) ==
    [f \in {g \in {"content", "chapters"} : body[g] # Undefined} |-> body[f]]

\* body.progress || {}
ProgressValue(body) ==
    IF body.progress = Undefined THEN EmptyObject ELSE body.progress

\* body.notes || {}
NotesValue(body) ==
    IF body.notes = Undefined THEN EmptyObject ELSE body.notes


\* -------------------------------------------------------------- state
VARIABLES
    redisUrl,      \* REDIS_URL is set
    redis,         \* the module variable redis: "client" or "null"
    conn,          \* the client's connection: none, connecting, ready, failed
    store,         \* the Redis store: the keys that exist, each with its value
    inflight,      \* the suspended handlers, by request number
    cmdq,          \* the requests with a store command outstanding, oldest first
    nreq,          \* requests received so far
    last,          \* the response sent last, with the request it answers
    okPosts,       \* history: the ids of the POST /api/books answered 200, in order
    dirty,         \* history: a book was deleted, or a save failed part-way
    lastProgress,  \* history: the progress field of the last POST /api/progress answered 200
    partial        \* history: a request failed (500) after it had changed the store

vars ==
    <<redisUrl, redis, conn, store, inflight, cmdq, nreq, last, okPosts, dirty,
      lastProgress, partial>>

EmptyStore == [k \in {} |-> Undefined]

JsonHeaders == {"Content-Type", "Access-Control-Allow-Origin"}
CorsHeaders ==
    {"Access-Control-Allow-Origin", "Access-Control-Allow-Methods",
     "Access-Control-Allow-Headers"}

NoPrior == [method |-> "NONE", path |-> <<>>, status |-> 0, reqBody |-> NoBody,
            overlap |-> FALSE]

NoResponse ==
    [method |-> "NONE", path |-> <<>>, status |-> 0, body |-> <<>>,
     headers |-> {}, reqBody |-> NoBody, json |-> TRUE, now |-> 0,
     overlap |-> FALSE,
     pre |-> EmptyStore, prior |-> NoPrior, wrote |-> FALSE, conn |-> "none",
     arrivedAt |-> "none"]

IsBookSave(r) == r.method = "POST" /\ r.path = <<API, BOOKS>>
IsBookDelete(r) == r.method = "DELETE" /\ IsBookPath(r.path)
IsBookChange(r) == IsBookSave(r) \/ IsBookDelete(r)
IsProgressSave(r) == r.method = "POST" /\ r.path = <<API, PROGRESS>>

\* A request as a client sends it: json tells whether its body parses as JSON
\* (the empty body parses as {}, which is NoBody).
Req(method, path, body, json) ==
    [method |-> method, path |-> path, body |-> body, json |-> json]

\* A request as the listener receives it.  overlap, pre, prior, wrote and
\* arrivedAt are history: whether another request was in flight during this
\* one, the store when it arrived, the response before it (when that answered
\* a book save or delete and nothing was in flight at this arrival), whether a command of it changed the store, and the
\* connection state at its arrival.
NewRequest(q) ==
    [method |-> q.method, path |-> q.path, pc |-> "start", body |-> q.body,
     json |-> q.json, now |-> 0, keys |-> <<>>, books |-> <<>>, meta |-> <<>>,
     overlap |-> DOMAIN inflight # {},
     pre |-> store,
     prior |-> IF DOMAIN inflight = {} /\ IsBookChange(last)
               THEN [method |-> last.method, path |-> last.path,
                     status |-> last.status, reqBody |-> last.reqBody,
                     overlap |-> last.overlap]
               ELSE NoPrior,
     wrote |-> FALSE, arrivedAt |-> conn]

\* ----------------------------------------------- what a handler step yields
\* res.writeHead(status, headers); res.end(body)
Sent(r, status, body, headers) ==
    [done |-> TRUE, req |-> r, status |-> status, body |-> body,
     headers |-> headers]

\* The handler suspends at an await; pc names what it waits for.
Suspend(r, pc) ==
    [done |-> FALSE, req |-> [r EXCEPT !.pc = pc], status |-> 0,
     body |-> <<>>, headers |-> {}]

SendJson(r, data, status) == Sent(r, status, data, JsonHeaders)

\* catch (err) { sendJson(res, { error: err.message }, 500) }
Caught(r, message) == SendJson(r, [error |-> message], 500)

\* await redis.<command>(...): the module variable redis is read when the
\* call is made; on null the call throws a TypeError, which the catch answers.
Command(r, pc, client) ==
    IF client = "null" THEN Caught(r, "TypeError") ELSE Suspend(r, pc)

\* The routes of handleApi, up to the first await of each.
Route(r, client) ==
    CASE r.path = <<API, BOOKS>> /\ r.method = "GET" -> Command(r, "keys", client)
      [] IsBookPath(r.path) /\ r.method = "GET" -> Command(r, "getMeta", client)
      [] r.path = <<API, BOOKS>> /\ r.method = "POST" -> Suspend(r, "body")
      [] IsBookPath(r.path) /\ r.method = "DELETE" -> Command(r, "delMeta", client)
      [] r.path = <<API, PROGRESS>> /\ r.method = "GET" ->
            Command(r, "getProgress", client)
      [] r.path = <<API, PROGRESS>> /\ r.method = "POST" -> Suspend(r, "body")
      [] r.path = <<API, NOTES>> /\ r.method = "GET" -> Command(r, "getNotes", client)
      [] r.path = <<API, NOTES>> /\ r.method = "POST" -> Suspend(r, "body")
      [] r.path = <<API, STATUS>> /\ r.method = "GET" -> Command(r, "ping", client)
      [] OTHER -> SendJson(r, [error |-> "Not found"], 404)

\* The availability check made for the reads alone.
UnavailableForReads(r, client) == client = "null" /\ r.method = "GET"

\* if (!redis) { sendJson(res, { error: ... }, 503); return; }
Unavailable(r, client) == client = "null"

\* handleApi, up to its first await.
HandleApi(r, client) ==
    IF r.method = "OPTIONS" THEN Sent(r, 204, <<>>, CorsHeaders)
    ELSE IF Unavailable(r, client)
         THEN SendJson(r, [error |-> "Cloud storage not available"], 503)
         ELSE Route(r, client)

\* The request listener, up to its first await or file read.
Listener(r, client) ==
    IF IsApiUrl(r.path) THEN HandleApi(r, client) ELSE Suspend(r, "readFile")


\* A POST handler from the return of parseBody, with the parsed body, to its
\* next await; now is what new Date() reads.
AfterBody(r, body, now, client) ==
    IF r.path = <<API, BOOKS>>
    THEN IF MissingRequired(body)
         THEN SendJson(r, [error |-> "Missing required fields"], 400)
         ELSE Command([r EXCEPT !.now = now], "setMeta", client)
    ELSE IF r.path = <<API, PROGRESS>>
         THEN Command(r, "setProgress", client)
         ELSE Command(r, "setNotes", client)

\* The store command a suspended handler has outstanding.
Op(r) ==
    CASE r.pc = "keys" -> [kind |-> "keys", key |-> <<>>, value |-> <<>>]
      [] r.pc = "listGet" -> [kind |-> "get", key |-> Head(r.keys), value |-> <<>>]
      [] r.pc = "getMeta" ->
            [kind |-> "get", key |-> BookKey(BookIdOf(r.path), "meta"), value |-> <<>>]
      [] r.pc = "getData" ->
            [kind |-> "get", key |-> BookKey(BookIdOf(r.path), "data"), value |-> <<>>]
      [] r.pc = "setMeta" ->
            [kind |-> "set", key |-> BookKey(r.body.id, "meta"),
             value |-> Stringify(MetaData(r.body, r.now))]
      [] r.pc = "setData" ->
            [kind |-> "set", key |-> BookKey(r.body.id, "data"),
             value |-> r.body.rawData]
      [] r.pc = "setContent" ->
            [kind |-> "set", key |-> BookKey(r.body.id, "content"),
             value |-> ContentValue(r.body)]
      [] r.pc = "delMeta" ->
            [kind |-> "del", key |-> BookKey(BookIdOf(r.path), "meta"), value |-> <<>>]
      [] r.pc = "delData" ->
            [kind |-> "del", key |-> BookKey(BookIdOf(r.path), "data"), value |-> <<>>]
      [] r.pc = "delContent" ->
            [kind |-> "del", key |-> BookKey(BookIdOf(r.path), "content"),
             value |-> <<>>]
      [] r.pc = "getProgress" -> [kind |-> "get", key |-> ProgressKey, value |-> <<>>]
      [] r.pc = "setProgress" ->
            [kind |-> "set", key |-> ProgressKey, value |-> ProgressValue(r.body)]
      [] r.pc = "getNotes" -> [kind |-> "get", key |-> NotesKey, value |-> <<>>]
      [] r.pc = "setNotes" ->
            [kind |-> "set", key |-> NotesKey, value |-> NotesValue(r.body)]
      [] r.pc = "ping" -> [kind |-> "ping", key |-> <<>>, value |-> <<>>]

\* The handler waits for a store command (not for a body or a file).
AwaitsStore(r) == r.pc \notin {"start", "body", "readFile", "readEntry"}

\* The store after it has executed the command.
StoreAfter(s, op) ==
    CASE op.kind = "set" ->
            [k \in DOMAIN s \cup {op.key} |-> IF k = op.key THEN op.value ELSE s[k]]
      [] op.kind = "del" -> [k \in DOMAIN s \ {op.key} |-> s[k]]
      [] OTHER -> s

\* The orders in which KEYS may list a set of keys.
RECURSIVE Orders(_)
Orders(S) ==
    IF S = {} THEN {<<>>}
    ELSE UNION {{<<k>> \o rest : rest \in Orders(S \ {k})} : k \in S}

\* What the store may answer to the command: for a get, <<value>> or <<>> (null).
Replies(s, op) ==
    CASE op.kind = "get" -> {IF op.key \in DOMAIN s THEN <<s[op.key]>> ELSE <<>>}
      [] op.kind = "keys" -> Orders({k \in DOMAIN s : MatchesMetaPattern(k)})
      [] op.kind = "ping" -> {<<"PONG">>}
      [] OTHER -> {<<"OK">>}

\* The deletes without the one of the data key.
AfterDeleteLeavesData(r, client) ==
    CASE r.pc = "delMeta" -> Command(r, "delContent", client)
      [] OTHER -> SendJson(r, [success |-> TRUE], 200)

\* The steps of the three deletes of DELETE /api/books/:id, in order.
AfterDelete(r, client) ==
    CASE r.pc = "delMeta" -> Command(r, "delData", client)
      [] r.pc = "delData" -> Command(r, "delContent", client)
      [] OTHER -> SendJson(r, [success |-> TRUE], 200)

\* POST /api/books after the meta record is written.
AfterSetMeta(r, client) ==
    IF r.body.rawData # Undefined THEN Command(r, "setData", client)
    ELSE IF HasContent(r.body) THEN Command(r, "setContent", client)
    ELSE SendJson(r, [success |-> TRUE, id |-> r.body.id], 200)

\* POST /api/books after the raw data is written.
AfterSetData(r, client) ==
    IF HasContent(r.body) THEN Command(r, "setContent", client)
    ELSE SendJson(r, [success |-> TRUE, id |-> r.body.id], 200)

\* The loop with books assigned instead of pushed to: it keeps the last one.
AfterListGetKeepsLast(r, reply, client) ==
    LET books == IF reply # <<>> THEN <<Parse(reply[1])>> ELSE r.books
        rest == Tail(r.keys)
    IN  IF rest = <<>> THEN SendJson(r, [books |-> books], 200)
        ELSE Command([r EXCEPT !.keys = rest, !.books = books], "listGet", client)

\* GET /api/books: one turn of the loop over the keys, reply being the meta read.
AfterListGet(r, reply, client) ==
    LET books == IF reply # <<>> THEN Append(r.books, Parse(reply[1])) ELSE r.books
        rest == Tail(r.keys)
    IN  IF rest = <<>> THEN SendJson(r, [books |-> books], 200)
        ELSE Command([r EXCEPT !.keys = rest, !.books = books], "listGet", client)

\* GET /api/books/:id once meta and data are read.
BookResponse(r, data) ==
    IF r.meta = <<>> THEN SendJson(r, [error |-> "Book not found"], 404)
    ELSE SendJson(r,
            [f \in MetaFields \cup {"rawData"} |->
                IF f = "rawData"
                THEN (IF data = <<>> THEN JsNull ELSE data[1])
                ELSE Parse(r.meta[1])[f]],
            200)

\* redis.get('user:progress') answered: progress ? JSON.parse(progress) : {}
UserResponse(r, field, reply) ==
    SendJson(r, [f \in {field} |-> IF reply = <<>> THEN EmptyObject ELSE reply[1]], 200)

\* A handler from the reply to its store command to its next await.
AfterReply(r, reply, client) ==
    CASE r.pc = "keys" ->
            IF reply = <<>> THEN SendJson(r, [books |-> <<>>], 200)
            ELSE Command([r EXCEPT !.keys = reply], "listGet", client)
      [] r.pc = "listGet" -> AfterListGet(r, reply, client)
      [] r.pc = "getMeta" -> Command([r EXCEPT !.meta = reply], "getData", client)
      [] r.pc = "getData" -> BookResponse(r, reply)
      [] r.pc = "setMeta" -> AfterSetMeta(r, client)
      [] r.pc = "setData" -> AfterSetData(r, client)
      [] r.pc = "setContent" -> SendJson(r, [success |-> TRUE, id |-> r.body.id], 200)
      [] r.pc \in {"delMeta", "delData", "delContent"} -> AfterDelete(r, client)
      [] r.pc = "getProgress" -> UserResponse(r, "progress", reply)
      [] r.pc = "getNotes" -> UserResponse(r, "notes", reply)
      [] r.pc \in {"setProgress", "setNotes"} -> SendJson(r, [success |-> TRUE], 200)
      [] r.pc = "ping" ->
            SendJson(r, [redis |-> IF reply = <<"PONG">> THEN "connected" ELSE "error"],
                     200)

\* mimeTypes[ext] || 'application/octet-stream'
ContentType(path) ==
    IF path = <<INDEX>> THEN "text/html" ELSE "application/octet-stream"

\* The callback of fs.readFile(filePath): err is "none", "ENOENT" or another code.
AfterReadFile(r, err) ==
    IF err = "none"
    THEN Sent(r, 200, [file |-> "content", type |-> ContentType(r.path)],
              {"Content-Type"})
    ELSE IF err = "ENOENT" THEN Suspend(r, "readEntry")
    ELSE Sent(r, 500, [file |-> "Server Error", type |-> "none"], {})

\* The callback of the read of the entry document.
AfterReadEntry(r, err) ==
    IF err = "none"
    THEN Sent(r, 200, [file |-> "entry", type |-> "text/html"], {"Content-Type"})
    ELSE Sent(r, 500, [file |-> "Server Error", type |-> "none"], {})


\* ------------------------------------------------------------- actions
Init ==
    /\ redisUrl \in BOOLEAN
    /\ redis = IF redisUrl THEN "client" ELSE "null"
    /\ conn = IF redisUrl THEN "connecting" ELSE "none"
    /\ store = EmptyStore
    /\ inflight = <<>>
    /\ cmdq = <<>>
    /\ nreq = 0
    /\ last = NoResponse
    /\ okPosts = <<>>
    /\ dirty = FALSE
    /\ lastProgress = <<>>
    /\ partial = FALSE

Without(f, n) == [k \in DOMAIN f \ {n} |-> f[k]]
With(f, n, r) == [k \in DOMAIN f \cup {n} |-> IF k = n THEN r ELSE f[k]]

\* The outcome of a handler step takes effect: the response is sent and the
\* handler ends, or the handler stays suspended and, when it waits for the
\* store, its command joins the queue q of the connection.
Apply(n, out, q, others) ==
    IF out.done
    THEN /\ inflight' = Without(others, n)
         /\ cmdq' = q
         /\ last' = [method |-> out.req.method, path |-> out.req.path,
                     status |-> out.status, body |-> out.body,
                     headers |-> out.headers, reqBody |-> out.req.body,
                     json |-> out.req.json,
                     now |-> out.req.now, overlap |-> out.req.overlap,
                     pre |-> out.req.pre, prior |-> out.req.prior,
                     wrote |-> out.req.wrote, conn |-> conn,
                     arrivedAt |-> out.req.arrivedAt]
         /\ okPosts' = IF IsBookSave(out.req) /\ out.status = 200
                       THEN Append(okPosts, out.req.body.id) ELSE okPosts
         /\ dirty' = (dirty \/ IsBookDelete(out.req)
                            \/ (IsBookSave(out.req) /\ out.status = 500))
         /\ lastProgress' = IF IsProgressSave(out.req) /\ out.status = 200
                            THEN <<out.req.body.progress>> ELSE lastProgress
         /\ partial' = (partial \/ (out.status = 500 /\ out.req.wrote))
    ELSE /\ inflight' = With(others, n, out.req)
         /\ cmdq' = IF AwaitsStore(out.req) THEN Append(q, n) ELSE q
         /\ UNCHANGED <<last, okPosts, dirty, lastProgress, partial>>

\* The 'connect' of redis.connect(): the connection is ready.
ConnectOk ==
    /\ conn = "connecting"
    /\ conn' = "ready"
    /\ UNCHANGED <<redisUrl, redis, store, inflight, cmdq, nreq, last, okPosts,
                   dirty, lastProgress, partial>>

\* redis.connect().catch(err => { redis = null })
ConnectFail ==
    /\ conn = "connecting"
    /\ conn' = "failed"
    /\ redis' = "null"
    /\ UNCHANGED <<redisUrl, store, inflight, cmdq, nreq, last, okPosts, dirty,
                   lastProgress, partial>>

\* A request arrives and the listener runs to its first await.
Arrive(q) ==
    /\ nreq < MaxRequests
    /\ Cardinality(DOMAIN inflight) < MaxInFlight
    /\ nreq' = nreq + 1
    /\ Apply(nreq + 1, Listener(NewRequest(q), redis), cmdq,
             [k \in DOMAIN inflight |-> [inflight[k] EXCEPT !.overlap = TRUE]])
    /\ UNCHANGED <<redisUrl, redis, conn, store>>

\* parseBody resolves with the parsed body.  new Date() reads the clock, which
\* here advances when a request arrives.
BodyRead(n) ==
    /\ n \in DOMAIN inflight
    /\ inflight[n].pc = "body"
    /\ inflight[n].json
    /\ Apply(n, AfterBody(inflight[n], inflight[n].body, nreq, redis), cmdq, inflight)
    /\ UNCHANGED <<redisUrl, redis, conn, store, nreq>>

\* parseBody rejects: the body is not JSON.
BodyMalformed(n) ==
    /\ n \in DOMAIN inflight
    /\ inflight[n].pc = "body"
    /\ ~inflight[n].json
    /\ Apply(n, Caught(inflight[n], "SyntaxError"), cmdq, inflight)
    /\ UNCHANGED <<redisUrl, redis, conn, store, nreq>>

\* The store executes the oldest outstanding command and its handler goes on.
StoreReply(n) ==
    /\ cmdq # <<>>
    /\ n = Head(cmdq)
    /\ conn = "ready"
    /\ LET r == inflight[n]
           op == Op(r)
           r1 == [r EXCEPT !.wrote = r.wrote \/ op.kind \in {"set", "del"}]
       IN  /\ store' = StoreAfter(store, op)
           /\ \E reply \in Replies(store, op) :
                 Apply(n, AfterReply(r1, reply, redis), Tail(cmdq), inflight)
    /\ UNCHANGED <<redisUrl, redis, conn, nreq>>

\* The oldest outstanding command is rejected (the connection is lost, or was
\* never made): the catch of handleApi answers 500.
StoreError(n) ==
    /\ cmdq # <<>>
    /\ n = Head(cmdq)
    /\ conn \in {"ready", "failed"}
    /\ Apply(n, Caught(inflight[n], "store error"), Tail(cmdq), inflight)
    /\ UNCHANGED <<redisUrl, redis, conn, store, nreq>>

\* fs.readFile(filePath) calls back.
StaticRead(n, err) ==
    /\ n \in DOMAIN inflight
    /\ inflight[n].pc = "readFile"
    /\ Apply(n, AfterReadFile(inflight[n], err), cmdq, inflight)
    /\ UNCHANGED <<redisUrl, redis, conn, store, nreq>>

\* fs.readFile of the entry document calls back.
EntryRead(n, err) ==
    /\ n \in DOMAIN inflight
    /\ inflight[n].pc = "readEntry"
    /\ Apply(n, AfterReadEntry(inflight[n], err), cmdq, inflight)
    /\ UNCHANGED <<redisUrl, redis, conn, store, nreq>>

Requests == 1..MaxRequests

\* A request without a body.
Plain(method, path) == Req(method, path, NoBody, TRUE)

\* The POSTs to a path with each of the bodies, and one whose body is not JSON.
Posts(path, bodies) ==
    {Req("POST", path, b, TRUE) : b \in bodies} \cup {Req("POST", path, NoBody, FALSE)}

\* Every method on every API path, and a read and a preflight of a static path.
AllRequests ==
    {Plain(m, p) : m \in Methods, p \in {x \in Paths : IsApiUrl(x)}}
    \cup {Plain("GET", <<INDEX>>), Plain("OPTIONS", <<INDEX>>)}

\* The bodies of the saves in the general workload: a book, one without id,
\* one without name.
SampleBodies ==
    {Body(<<"b", "1">>, "n1", Undefined, Undefined, Undefined, "d1", Undefined,
          Undefined)}
    \cup InvalidBookBodies

\* One request for each route of handleApi, a preflight, a method no route
\* takes, and two requests for a static path.
RouteRequests ==
    {Plain("GET", <<API, BOOKS>>), Plain("GET", BookPath(<<"b", "1">>)),
     Plain("DELETE", BookPath(<<"b", "1">>)), Plain("GET", <<API, PROGRESS>>),
     Plain("GET", <<API, NOTES>>), Plain("GET", <<API, STATUS>>),
     Plain("PUT", <<API, STATUS>>),
     Plain("OPTIONS", <<API, BOOKS>>), Plain("GET", <<INDEX>>),
     Plain("OPTIONS", <<INDEX>>)}
    \cup Posts(<<API, BOOKS>>, SampleBodies)
    \cup {Req("POST", <<API, PROGRESS>>, [NoBody EXCEPT !.progress = "p1"], TRUE),
          Req("POST", <<API, NOTES>>, [NoBody EXCEPT !.notes = "p1"], TRUE)}

\* The server from its start, the store configured or not, its connection
\* made or failed, under one request for each route.
Next ==
    \/ ConnectOk
    \/ ConnectFail
    \/ \E q \in RouteRequests : Arrive(q)
    \/ \E n \in Requests : BodyRead(n)
    \/ \E n \in Requests : BodyMalformed(n)
    \/ \E n \in Requests : StoreReply(n)
    \/ \E n \in Requests : StoreError(n)
    \/ \E n \in Requests, e \in {"none", "ENOENT", "EIO"} : StaticRead(n, e)
    \/ \E n \in Requests, e \in {"none", "EIO"} : EntryRead(n, e)

Spec == Init /\ [][Next]_vars

\* No REDIS_URL: redis stays null.
InitUnconfigured == Init /\ redisUrl = FALSE

\* The server without a store, under every method on every API path.
NextUnconfigured ==
    \/ \E q \in AllRequests : Arrive(q)
    \/ \E n \in Requests, e \in {"none", "ENOENT", "EIO"} : StaticRead(n, e)
    \/ \E n \in Requests, e \in {"none", "EIO"} : EntryRead(n, e)

SpecUnconfigured == InitUnconfigured /\ [][NextUnconfigured]_vars

\* The book requests: save, list, read and delete, for every id.
BookRequests ==
    Posts(<<API, BOOKS>>, BookBodies)
    \cup {Plain("GET", <<API, BOOKS>>)}
    \cup {Plain("GET", BookPath(i)) : i \in Ids}
    \cup {Plain("DELETE", BookPath(i)) : i \in Ids}

\* The store is configured and its connection is made.
InitConnected ==
    /\ redisUrl = TRUE
    /\ redis = "client"
    /\ conn = "ready"
    /\ store = EmptyStore
    /\ inflight = <<>>
    /\ cmdq = <<>>
    /\ nreq = 0
    /\ last = NoResponse
    /\ okPosts = <<>>
    /\ dirty = FALSE
    /\ lastProgress = <<>>
    /\ partial = FALSE

\* The server with the store connected, under the book requests.
NextBooks ==
    \/ \E q \in BookRequests : Arrive(q)
    \/ \E n \in Requests : BodyRead(n)
    \/ \E n \in Requests : BodyMalformed(n)
    \/ \E n \in Requests : StoreReply(n)
    \/ \E n \in Requests : StoreError(n)

SpecBooks == InitConnected /\ [][NextBooks]_vars

\* Saves of two books and of bodies that lack a field, and the list.
SaveRequests ==
    {Req("POST", <<API, BOOKS>>, b, TRUE) :
        b \in {Body(<<"b", "1">>, "n1", Undefined, Undefined, Undefined, "d1",
                    Undefined, Undefined),
               Body(<<"b", " ", "2">>, "n1", "epub", "10", "m1", Undefined,
                    Undefined, Undefined)}
              \cup InvalidBookBodies}
    \cup {Plain("GET", <<API, BOOKS>>)}

\* The server from its start, the store configured or not, its connection
\* made or failed, under saves and lists.
NextSaves ==
    \/ ConnectOk
    \/ ConnectFail
    \/ \E q \in SaveRequests : Arrive(q)
    \/ \E n \in Requests : BodyRead(n)
    \/ \E n \in Requests : StoreReply(n)
    \/ \E n \in Requests : StoreError(n)

SpecSaves == Init /\ [][NextSaves]_vars

\* Saves and deletes of one book.
RaceRequests ==
    {Req("POST", <<API, BOOKS>>, b, TRUE) :
        b \in {Body(<<"b", "1">>, "n1", Undefined, Undefined, Undefined, "d1",
                    Undefined, Undefined),
               Body(<<"b", "1">>, "n1", Undefined, Undefined, Undefined,
                    Undefined, "c1", Undefined)}}
    \cup {Plain("DELETE", BookPath(<<"b", "1">>))}

\* The server with the store connected, under saves and deletes of one book.
NextRace ==
    \/ \E q \in RaceRequests : Arrive(q)
    \/ \E n \in Requests : BodyRead(n)
    \/ \E n \in Requests : StoreReply(n)
    \/ \E n \in Requests : StoreError(n)

SpecRace == InitConnected /\ [][NextRace]_vars

\* The progress requests, and a notes and a book save beside them.
UserRequests ==
    {Plain("GET", <<API, PROGRESS>>)}
    \cup {Req("POST", <<API, PROGRESS>>, b, TRUE) : b \in ProgressBodies}
    \cup {Req("POST", <<API, NOTES>>, [NoBody EXCEPT !.notes = "p2"], TRUE),
          Req("POST", <<API, BOOKS>>,
              Body(<<"b", "1">>, "n1", Undefined, Undefined, Undefined, Undefined,
                   Undefined, Undefined), TRUE)}

\* The server with the store connected, under the progress and notes requests.
NextUser ==
    \/ \E q \in UserRequests : Arrive(q)
    \/ \E n \in Requests : BodyRead(n)
    \/ \E n \in Requests : StoreReply(n)
    \/ \E n \in Requests : StoreError(n)

SpecUser == InitConnected /\ [][NextUser]_vars


\* ------------------------------------------------------------- claims
\* A response has been sent; last holds it.
Answered == last.method # "NONE"

\* Nothing is in flight: the store is as the last response left it.
Quiet == DOMAIN inflight = {}

BookFields == {"id", "name", "type", "size", "metadata"}

\* The last response answers a GET of the book the request before it saved,
\* nothing else in between, the store answering.
ReadAfterSave ==
    /\ Answered
    /\ last.method = "GET"
    /\ ~last.overlap
    /\ last.status # 500
    /\ IsBookSave(last.prior)
    /\ last.prior.status = 200
    /\ ~last.prior.overlap
    /\ last.path = BookPath(last.prior.reqBody.id)

\* C1: a successful POST /api/books followed by GET /api/books/{id}, with no
\* other request in between and the store available, returns 200 with the id,
\* name, type, size and metadata that were posted, for every id string.
C1_SaveThenReadReturnsRecord ==
    ReadAfterSave =>
        /\ last.status = 200
        /\ \A f \in BookFields : last.body[f] = last.prior.reqBody[f]

\* C2 as stated: with no store configured, every request under /api/, whatever
\* its method, is answered 503 with an error field.
C2_EveryApiRequest503 ==
    (Answered /\ ~redisUrl /\ IsApiUrl(last.path)) =>
        (last.status = 503 /\ "error" \in DOMAIN last.body)

\* C2 amended: with no store configured, every request under /api/ whose method
\* is not OPTIONS is answered 503 with an error field.
C2_NonOptionsApiRequest503 ==
    (Answered /\ ~redisUrl /\ IsApiUrl(last.path) /\ last.method # "OPTIONS") =>
        (last.status = 503 /\ "error" \in DOMAIN last.body)

\* A DELETE of a book path was answered 503 by the server without a store.
C2_Witness ==
    /\ ~redisUrl
    /\ IsBookDelete(last)
    /\ last.status = 503
    /\ "error" \in DOMAIN last.body

\* C3: an OPTIONS request to any path, API or not, is answered 204 with an
\* empty body and the three cross-origin headers, in every store state.
C3_OptionsAnyPath204 ==
    (Answered /\ last.method = "OPTIONS") =>
        (last.status = 204 /\ last.body = <<>> /\ last.headers = CorsHeaders)

\* The body carries no id or no name.
LacksIdOrName(body) == body.id = NoId \/ body.name = Undefined

\* The request the last response answers is well formed: its body is JSON,
\* and a save carries id and name.
WellFormed ==
    last.json /\ (IsBookSave(last) => ~LacksIdOrName(last.reqBody))

\* C4: when the store is configured and its connection has failed, every
\* non-OPTIONS API request answered from then on is answered 503 (never 500),
\* also one that arrived while the connection was pending and whose handler was
\* suspended on its body read when the connection failed.  Stated of the
\* well-formed POSTs, the requests that read a body.
C4_FailedConnection503 ==
    (/\ Answered
     /\ redisUrl
     /\ last.conn = "failed"
     /\ IsApiUrl(last.path)
     /\ last.method = "POST"
     /\ WellFormed) => last.status = 503

\* The last two responses answer two consecutive DELETEs of the same book
\* path, nothing else in flight meanwhile, the store answering.
DeletedTwice ==
    /\ Answered
    /\ Quiet
    /\ IsBookDelete(last)
    /\ ~last.overlap
    /\ last.status # 500
    /\ IsBookDelete(last.prior)
    /\ last.prior.path = last.path
    /\ ~last.prior.overlap
    /\ last.prior.status # 500

\* C5: two consecutive DELETE /api/books/{id} both answer 200 {success: true},
\* the store after the second is the store after the first, and the meta, data
\* and content keys of the id are absent, for every id.
C5_DeleteTwice ==
    \A i \in Ids :
        (DeletedTwice /\ last.path = BookPath(i)) =>
            /\ last.status = 200 /\ last.prior.status = 200
            /\ last.body = [success |-> TRUE]
            /\ store = last.pre
            /\ \A x \in {"meta", "data", "content"} : BookKey(i, x) \notin DOMAIN store

Range(seq) == {seq[k] : k \in DOMAIN seq}
Distinct(seq) == Cardinality(Range(seq)) = Len(seq)

\* The last response answers a GET /api/books that ran alone, after saves of
\* distinct ids that all succeeded and no delete.
ListAfterSaves ==
    /\ Answered
    /\ last.method = "GET"
    /\ last.path = <<API, BOOKS>>
    /\ last.status = 200
    /\ ~last.overlap
    /\ ~dirty
    /\ Distinct(okPosts)

\* C6: from an empty store, after N successful POST /api/books with distinct
\* ids and no DELETE, GET /api/books returns exactly N entries, one for each
\* saved id.
C6_ListAfterSaves ==
    ListAfterSaves =>
        /\ Len(last.body.books) = Len(okPosts)
        /\ {last.body.books[k].id : k \in DOMAIN last.body.books} = Range(okPosts)

\* Two books were saved and the list that followed was answered.
C6_Witness ==
    /\ ListAfterSaves
    /\ Len(okPosts) = 2
    /\ Len(last.body.books) = 2

\* The progress record the last successful POST /api/progress leaves: its
\* progress field, or the empty record when it carried none or none succeeded.
SavedProgress ==
    IF lastProgress = <<>> THEN EmptyObject
    ELSE IF lastProgress[1] = Undefined THEN EmptyObject
    ELSE lastProgress[1]

\* The last response answers a GET /api/progress that ran alone.
ProgressRead ==
    /\ Answered
    /\ last.method = "GET"
    /\ last.path = <<API, PROGRESS>>
    /\ last.status = 200
    /\ ~last.overlap

\* C7: GET /api/progress returns the progress of the most recent successful
\* POST /api/progress, whatever earlier progress writes and book or notes
\* requests there were, and the empty record when none succeeded.
C7_ProgressReadsLastSave ==
    ProgressRead => last.body = [progress |-> SavedProgress]

\* A progress record was saved, then notes, and the progress read after them
\* returns the record.
C7_Witness ==
    /\ ProgressRead
    /\ lastProgress = <<"p1">>
    /\ last.body.progress = "p1"
    /\ NotesKey \in DOMAIN store

\* The last response answers a POST /api/books whose JSON body lacks id or name.
InvalidSave ==
    /\ Answered
    /\ IsBookSave(last)
    /\ last.json
    /\ LacksIdOrName(last.reqBody)

\* C8 as stated: a POST /api/books whose body lacks id or name is answered 400
\* and writes no key.
C8_InvalidSave400 ==
    InvalidSave =>
        /\ last.status = 400
        /\ ~last.wrote
        /\ (~last.overlap /\ Quiet) => store = last.pre

\* C8 amended: such a POST writes no key, and is answered 400 when the store
\* client exists as the request arrives, 503 when it does not.
C8_InvalidSaveWritesNothing ==
    InvalidSave =>
        /\ last.status = IF last.arrivedAt \in {"connecting", "ready"} THEN 400 ELSE 503
        /\ ~last.wrote
        /\ (~last.overlap /\ Quiet) => store = last.pre

\* A save without name was answered 400 over a store that holds a book.
C8_Witness ==
    /\ InvalidSave
    /\ Quiet
    /\ last.reqBody.name = Undefined
    /\ last.status = 400
    /\ DOMAIN store # {}

\* A request for the book id of the key is in flight.
InFlightFor(id) ==
    \E n \in DOMAIN inflight :
        \/ IsBookSave(inflight[n]) /\ inflight[n].body.id = id
        \/ IsBookPath(inflight[n].path) /\ BookIdOf(inflight[n].path) = id

\* Every data or content key whose book has no request in flight has its meta
\* key beside it.
KeysAUnit ==
    \A k \in DOMAIN store :
        (k[3] \in {"data", "content"} /\ ~InFlightFor(k[2])) =>
            BookKey(k[2], "meta") \in DOMAIN store

BookOf(body, now) ==
    [x \in {"meta"} \cup (IF body.rawData # Undefined THEN {"data"} ELSE {})
                    \cup (IF HasContent(body) THEN {"content"} ELSE {}) |->
        IF x = "meta" THEN Stringify(MetaData(body, now))
        ELSE IF x = "data" THEN body.rawData
        ELSE ContentValue(body)]

\* The keys of the book in the store.
StoredBook(id) ==
    [x \in {y \in {"meta", "data", "content"} : BookKey(id, y) \in DOMAIN store} |->
        store[BookKey(id, x)]]

\* C10: after a successful POST /api/books with no concurrent request, the
\* values under the meta, data and content keys of the id are those of the
\* request's body alone, whatever an earlier POST stored.
C10_FullReplacement ==
    (Answered /\ Quiet /\ IsBookSave(last) /\ last.status = 200 /\ ~last.overlap) =>
        StoredBook(last.reqBody.id) = BookOf(last.reqBody, last.now)

====
